---- MODULE Spec2Model ----
(***************************************************************************)
(* secret-sync: synchronisation of named secrets held in a secret manager  *)
(* (AWS Secrets Manager compatible) with local files.                      *)
(*                                                                         *)
(* The model follows src/src/main.rs (app), src/src/pull.rs,               *)
(* src/src/push.rs, src/src/secret/aws.rs and src/src/fs/real.rs.  Every   *)
(* await point of the engine (one backend request, one file operation) is  *)
(* one action.  Option<T> is a sequence of length 0 (None) or 1 (Some).    *)
(* Strings that the code inspects (entry names, glob patterns, paths) are  *)
(* sequences; byte strings are sequences of numbers in 0..255.             *)
(***************************************************************************)
EXTENDS Integers, Sequences, FiniteSets, TLC

None == <<>>
Some(x) == <<x>>

(***************************************************************************)
(* Bounds of the model.                                                    *)
(***************************************************************************)
\* number of entries declared in the manifest ([files.*] tables)
NumFiles == 2
\* number of invocations of the command line program in one behaviour
MaxRuns == 2

(***************************************************************************)
(* The manifest (secret-sync.toml).                                        *)
(***************************************************************************)
\* args.config: the manifest given with --config
ConfigArg == <<"/", "cfg", "secret-sync.toml">>

\* env::current_dir() of the process
CurrentDir == <<"/", "cwd">>

\* the names of the [files.<name>] tables, in declaration order
EntryName(i) == IF i = 1 THEN <<"a">> ELSE <<"b", ToString(i - 1)>>

\* entry 1 has a relative path, the others an absolute one
EntryPath(i) == IF i = 1 THEN <<".env">> ELSE <<"/", "abs", ToString(i)>>

\* every entry has its own secret, as in the repository's tests
EntrySecret(i) == <<"test-secret", ToString(i)>>
SecretNames == {EntrySecret(i) : i \in 1..NumFiles}

\* SecretMetadata { description: Option<String>, tags: Option<HashMap> };
\* a HashMap is the set of its <<key, value>> pairs.  The operator may edit
\* the metadata tables between two invocations: rev is the revision read.
DefaultMetadata == [description |-> None, tags |-> None]
EntryMetadata(i, rev) ==
    IF rev = 1
    THEN IF i % 2 = 1
         THEN [description |-> Some("Example Description"),
               tags |-> Some({<<"environment", "Production">>})]
         ELSE DefaultMetadata
    ELSE IF i % 2 = 1
         THEN [description |-> Some("Edited Description"), tags |-> None]
         ELSE [description |-> None,
               tags |-> Some({<<"environment", "Staging">>})]

Revisions == {1, 2}

\* struct SecretFile
SecretFile(i, rev) ==
    [path |-> EntryPath(i), secret |-> EntrySecret(i),
     metadata |-> EntryMetadata(i, rev)]

\* the [files.<name>] tables of the manifest in declaration order, each
\* with its name
ConfigFiles(rev) ==
    [i \in 1..NumFiles |-> [name |-> EntryName(i), file |-> SecretFile(i, rev)]]

\* the orders in which a HashMap of n entries can be iterated
IterationOrders(n) ==
    {f \in [1..n -> 1..n] : \A i, j \in 1..n : i # j => f[i] # f[j]}

\* Config.files is a HashMap<String, SecretFile>: deserialising the manifest
\* keeps the entries but not the order of their declaration; order is the
\* order in which the map is iterated in this process
ReadConfigFiles(entries, order) == [i \in 1..Len(entries) |-> entries[order[i]]]

\* the arguments of the quick-pull and quick-push commands
QuickPath == <<".env">>
QuickSecret == EntrySecret(1)

\* the SecretFile that Commands::QuickPull and Commands::QuickPush build
QuickFile ==
    [path |-> QuickPath, secret |-> QuickSecret, metadata |-> DefaultMetadata]

(***************************************************************************)
(* Paths.                                                                  *)
(***************************************************************************)
IsAbsolute(path) == Len(path) > 0 /\ path[1] = "/"

\* Path::join of a relative path
Join(base, path) == base \o path

\* the file_path computed by pull_secret_file and push_secret_file
ResolvePath(working_path, path) ==
    IF IsAbsolute(path) THEN path ELSE Join(working_path, path)

\* std::path::absolute
Absolute(path) == IF IsAbsolute(path) THEN path ELSE Join(CurrentDir, path)

\* Path::parent of a path with at least one component below the root
Parent(path) == SubSeq(path, 1, Len(path) - 1)

\* directory that contains the manifest
WorkingPath == Parent(Absolute(ConfigArg))

\* the commands that run the engine of pull_secret_files
PullCommands == {"pull", "quick-pull"}

\* a variant that runs every command in the current directory
CommandWorkingPathCwd(cmd) == CurrentDir

\* the working_path app hands to the engine: the directory of the manifest
\* for pull and push, the current directory for quick-pull and quick-push
CommandWorkingPath(cmd) ==
    IF cmd \in {"pull", "push"} THEN Parent(Absolute(ConfigArg)) ELSE CurrentDir

\* the files the commands can name
DiskPaths ==
    {ResolvePath(WorkingPath, EntryPath(i)) : i \in 1..NumFiles} \cup
    {ResolvePath(CurrentDir, QuickPath)}

(***************************************************************************)
(* Secret values.                                                          *)
(***************************************************************************)
\* enum Secret { String(String), Binary(Vec<u8>) }; a String is held as its
\* UTF-8 bytes, as in Rust
SecretString(bytes) == [kind |-> "String", bytes |-> bytes]
SecretBinary(bytes) == [kind |-> "Binary", bytes |-> bytes]

IsCont(c) == c >= 128 /\ c <= 191

\* core::str::from_utf8's acceptance of a byte string
RECURSIVE Utf8Valid(_)
Utf8Valid(b) ==
    IF b = <<>> THEN TRUE
    ELSE LET c == b[1]
             n == Len(b)
         IN  IF c < 128 THEN Utf8Valid(Tail(b))
             ELSE IF c >= 194 /\ c <= 223
             THEN n >= 2 /\ IsCont(b[2]) /\ Utf8Valid(SubSeq(b, 3, n))
             ELSE IF c >= 224 /\ c <= 239
             THEN /\ n >= 3
                  /\ IsCont(b[2]) /\ IsCont(b[3])
                  /\ (c = 224 => b[2] >= 160)
                  /\ (c = 237 => b[2] <= 159)
                  /\ Utf8Valid(SubSeq(b, 4, n))
             ELSE IF c >= 240 /\ c <= 244
             THEN /\ n >= 4
                  /\ IsCont(b[2]) /\ IsCont(b[3]) /\ IsCont(b[4])
                  /\ (c = 240 => b[2] >= 144)
                  /\ (c = 244 => b[2] <= 143)
                  /\ Utf8Valid(SubSeq(b, 5, n))
             ELSE FALSE

\* a variant that sends every file as binary
ClassifyBytesBinary(bytes) == SecretBinary(bytes)

\* push_secret_file: match String::from_utf8(value)
ClassifyBytes(bytes) ==
    IF Utf8Valid(bytes) THEN SecretString(bytes) ELSE SecretBinary(bytes)

\* the bytes pull_secret_file hands to write_file
AsBytes(secret) == secret.bytes

\* byte strings found in local files and in secrets created elsewhere
\* "h", "w\u{f6}" (two characters, three bytes), and a lead byte of a
\* two-byte character followed by "("
Hello == <<104>>
World == <<119, 195, 182>>
Opaque == <<195, 40>>
FileContents == {World, Opaque}

(***************************************************************************)
(* Errors.  An eyre::Report is the chain of its messages, the outermost    *)
(* context first; a message with a placeholder keeps the value put in it.  *)
(***************************************************************************)
Msg(text, arg) == [msg |-> text, arg |-> arg]
NoArg == <<>>

Ok == [ok |-> TRUE, chain |-> <<>>]
Err(chain) == [ok |-> FALSE, chain |-> chain]

\* .context(text) on a failed result
Context(text, result) ==
    IF result.ok THEN result ELSE Err(<<Msg(text, NoArg)>> \o result.chain)

\* an SdkError: a service error carries the service's error code, any other
\* error (dispatch failure, timeout) carries none
SdkError(service, code) == [service |-> service, code |-> code]
ResourceExists == SdkError(TRUE, "ResourceExistsException")
ResourceNotFound == SdkError(TRUE, "ResourceNotFoundException")

\* failures the backend can answer any request with, whatever its state
BackendFaults ==
    {SdkError(TRUE, "InternalServiceError"), SdkError(FALSE, "DispatchFailure")}

\* eyre::Report::new(error)
ReportNew(error) == Err(<<Msg(error.code, NoArg)>>)

\* a variant that takes every service error for the already-exists error
IsResourceExistsAnyService(error) == error.service

\* error.as_service_error().is_some_and(|value| value.is_resource_exists_exception())
IsResourceExists(error) ==
    error.service /\ error.code = "ResourceExistsException"

\* error.as_service_error().is_some_and(|value| value.is_resource_not_found_exception())
IsResourceNotFound(error) ==
    error.service /\ error.code = "ResourceNotFoundException"

(***************************************************************************)
(* The requests set_secret builds.                                         *)
(***************************************************************************)
\* let (secret_binary, secret_string) = match value { ... }
SecretBinaryField(value) ==
    IF value.kind = "Binary" THEN Some(value.bytes) ELSE None
SecretStringField(value) ==
    IF value.kind = "String" THEN Some(value.bytes) ELSE None

\* metadata.tags mapped to Option<Vec<Tag>>; the order of the tags is that
\* of the map's iteration and carries no meaning
TagsField(metadata) ==
    IF metadata.tags = None THEN None
    ELSE Some({[key |-> kv[1], value |-> kv[2]] : kv \in metadata.tags[1]})

CreateRequest(name, value, metadata) ==
    [op |-> "CreateSecret",
     name |-> name,
     secret_binary |-> SecretBinaryField(value),
     secret_string |-> SecretStringField(value),
     description |-> metadata.description,
     tags |-> TagsField(metadata)]

\* a variant that resends the declared metadata with the update
UpdateRequestWithMetadata(name, value, metadata) ==
    [op |-> "UpdateSecret",
     name |-> name,
     secret_binary |-> SecretBinaryField(value),
     secret_string |-> SecretStringField(value),
     description |-> metadata.description,
     tags |-> TagsField(metadata)]

\* the update request has neither a description nor tags set
UpdateRequest(name, value, metadata) ==
    [op |-> "UpdateSecret",
     name |-> name,
     secret_binary |-> SecretBinaryField(value),
     secret_string |-> SecretStringField(value),
     description |-> None,
     tags |-> None]

(***************************************************************************)
(* The secret manager service: a map from secret names to the stored       *)
(* secret.  CreateSecret refuses an existing name; UpdateSecret replaces   *)
(* the value and changes only the attributes the request sets.             *)
(***************************************************************************)
StoredSecret(req) ==
    [secret_string |-> req.secret_string,
     secret_binary |-> req.secret_binary,
     description |-> req.description,
     tags |-> req.tags]

Exists(st, name) == st[name] # None

ServiceCreate(st, req) == [st EXCEPT ![req.name] = Some(StoredSecret(req))]

ServiceUpdate(st, req) ==
    LET old == st[req.name][1]
    IN  [st EXCEPT ![req.name] =
            Some([secret_string |-> req.secret_string,
                  secret_binary |-> req.secret_binary,
                  description |-> IF req.description = None
                                  THEN old.description ELSE req.description,
                  tags |-> IF req.tags = None THEN old.tags ELSE req.tags])]

\* a secret that was created by someone else before the first invocation
ForeignSecret ==
    [secret_string |-> Some(Hello),
     secret_binary |-> None,
     description |-> Some("Set Elsewhere"),
     tags |-> None]

(***************************************************************************)
(* Selection of the entries of a run (main.rs, filter_files).              *)
(***************************************************************************)
\* fast_glob::glob_match restricted to literal characters, ? and *
RECURSIVE GlobMatch(_, _)
GlobMatch(glob, name) ==
    IF glob = <<>> THEN name = <<>>
    ELSE IF glob[1] = "*"
    THEN \/ GlobMatch(Tail(glob), name)
         \/ name # <<>> /\ GlobMatch(glob, Tail(name))
    ELSE IF glob[1] = "?"
    THEN name # <<>> /\ GlobMatch(Tail(glob), Tail(name))
    ELSE name # <<>> /\ name[1] = glob[1] /\ GlobMatch(Tail(glob), Tail(name))

\* a variant that asks for a listed name and a matching glob
FilterMatchesAnd(name, filter) ==
    IF filter.file = None /\ filter.glob = None THEN TRUE
    ELSE LET name_matches ==
                 /\ filter.file # None
                 /\ \E k \in 1..Len(filter.file[1]) : filter.file[1][k] = name
             glob_matches ==
                 /\ filter.glob # None
                 /\ \E g \in 1..Len(filter.glob[1]) :
                        GlobMatch(filter.glob[1][g], name)
         IN  name_matches /\ glob_matches

\* the closure handed to .filter(..)
FilterMatches(name, filter) ==
    IF filter.file = None /\ filter.glob = None THEN TRUE
    ELSE LET name_matches ==
                 /\ filter.file # None
                 /\ \E k \in 1..Len(filter.file[1]) : filter.file[1][k] = name
             glob_matches ==
                 /\ filter.glob # None
                 /\ \E g \in 1..Len(filter.glob[1]) :
                        GlobMatch(filter.glob[1][g], name)
         IN  name_matches \/ glob_matches

RECURSIVE FilterFrom(_, _, _)
FilterFrom(files, filter, i) ==
    IF i > Len(files) THEN <<>>
    ELSE (IF FilterMatches(files[i].name, filter)
          THEN <<files[i].file>> ELSE <<>>) \o FilterFrom(files, filter, i + 1)

\* a variant that ignores the filter
filter_files_all(files, filter) == [i \in 1..Len(files) |-> files[i].file]

filter_files(files, filter) == FilterFrom(files, filter, 1)

\* struct TargetFilter { file: Option<Vec<String>>, glob: Option<Vec<String>> }
TargetFilter(file, glob) == [file |-> file, glob |-> glob]

\* the filters given on the command line
Filters ==
    {TargetFilter(None, None),
     TargetFilter(Some(<< <<"a">> >>), None),
     TargetFilter(None, Some(<< <<"b", "*">> >>)),
     TargetFilter(Some(<< <<"c">> >>), None)}

(***************************************************************************)
(* State.                                                                  *)
(***************************************************************************)
VARIABLES
    store,     \* the secret manager: secret name -> Option of the stored secret
    disk,      \* the file system: path -> Option of the file's bytes
    dirs,      \* the file system: the directories that exist
    runs,      \* invocations of the program started so far
    command,   \* the variant of Commands of the invocation
    declared,  \* selection: the entries of a manifest file, in declaration order
    manifest,  \* selection: config.files, in the order the map is iterated
    filter,    \* the TargetFilter of the invocation
    working_path, \* app: the working_path handed to the engine
    files,     \* app: the entries the engine is run over
    idx,       \* pull_secret_files/push_secret_files: position of the loop in files
    pc,        \* the await point the invocation is at
    value,     \* pull_secret_file/push_secret_file: the local `value`
    result,    \* Option of what app returned
    calls,     \* the operations of this invocation, in the order they completed
    setCalls,  \* every call of set_secret so far, with its requests
    exited,    \* Option of what main printed and returned with
    prev       \* the previous invocation, as it ended

vars ==
    <<store, disk, dirs, runs, command, declared, manifest, filter,
      working_path, files, idx, pc, value, result, calls, setCalls, exited, prev>>

NoRun ==
    [command |-> "none", working_path |-> <<>>, files |-> <<>>,
     result |-> None, idx |-> 0, calls |-> <<>>, store |-> store, disk |-> disk,
     dirs |-> dirs, started |-> dirs]

\* the directories on the way to path, the root first, path included
Ancestors(path) == {SubSeq(path, 1, n) : n \in 1..Len(path)}

\* every directory the commands can write a file into, with its ancestors
AllDirs == UNION {Ancestors(Parent(path)) : path \in DiskPaths}

\* the directory of the manifest and the current directory exist, and so
\* does the directory of every file that exists; any other may be missing
InitialDirs(d) ==
    {ds \in SUBSET AllDirs :
        /\ Ancestors(WorkingPath) \cup Ancestors(CurrentDir) \subseteq ds
        /\ \A path \in DiskPaths :
               d[path] # None => Ancestors(Parent(path)) \subseteq ds
        /\ \A dir \in ds : Ancestors(dir) \subseteq ds}

\* the files of the manifest hold anything; the current directory has a
\* file of its own under the relative name
InitialFiles(path) ==
    IF path = ResolvePath(CurrentDir, QuickPath) THEN {Some(Hello)}
    ELSE {None} \cup {Some(c) : c \in FileContents}

Init ==
    /\ store \in [SecretNames -> {None, Some(ForeignSecret)}]
    /\ disk \in {d \in [DiskPaths -> {None} \cup {Some(c) : c \in FileContents \cup {Hello}}] :
                    \A path \in DiskPaths : d[path] \in InitialFiles(path)}
    /\ dirs \in InitialDirs(disk)
    /\ runs = 0
    /\ command = "none"
    /\ declared = <<>>
    /\ manifest = <<>>
    /\ filter = TargetFilter(None, None)
    /\ working_path = <<>>
    /\ files = <<>>
    /\ idx = 0
    /\ pc = "exit"
    /\ value = None
    /\ result = None
    /\ calls = <<>>
    /\ setCalls = <<>>
    /\ exited = None
    /\ prev = NoRun

\* one completed operation of the engine: the entry it was issued for, the
\* secret or path it was issued on, and the error code of a failed request
Call(op, i, target, ok, code) ==
    [op |-> op, idx |-> i, target |-> target, ok |-> ok, code |-> code]

\* the outermost message of a failed operation of the file system ("" when
\* it succeeded)
FaultOf(res) == IF res.ok THEN "" ELSE res.chain[1].msg

\* the error code of a response of the service ("" when it succeeded)
CodeOf(resp) == IF resp.ok THEN "" ELSE resp.error.code

\* what this invocation looked like when it ended
Snapshot ==
    [command |-> command, working_path |-> working_path, files |-> files,
     result |-> result, idx |-> idx, calls |-> calls, store |-> store,
     disk |-> disk, dirs |-> dirs, started |-> prev.dirs]

\* a variant that runs the engine of push for every command
FirstStepPush(cmd) == "push_read"

\* the first await point of a command
FirstStep(cmd) == IF cmd \in PullCommands THEN "pull_get" ELSE "push_read"

\* a variant that goes on with the next entry after a failed one
AfterFailureContinue(cmd, i, n) ==
    IF i < n THEN [pc |-> FirstStep(cmd), idx |-> i + 1]
    ELSE [pc |-> "exit", idx |-> i]

\* the ? operator inside the loops of pull_secret_files and push_secret_files:
\* a failed entry ends the run with its error
AfterFailure(cmd, i, n) == [pc |-> "exit", idx |-> i]

\* a variant whose loop ends one entry early
AfterSuccessOffByOne(cmd, i, n) ==
    IF i + 1 < n THEN [pc |-> FirstStep(cmd), idx |-> i + 1]
    ELSE [pc |-> "exit", idx |-> i]

\* the loops of pull_secret_files and push_secret_files after an entry that
\* succeeded: the next entry, or Ok(()) after the last one
AfterSuccess(cmd, i, n) ==
    IF i < n THEN [pc |-> FirstStep(cmd), idx |-> i + 1]
    ELSE [pc |-> "exit", idx |-> i]

(***************************************************************************)
(* app: Commands::Pull { filter } and Commands::Push { filter }.           *)
(***************************************************************************)
(***************************************************************************)
(* main: what the process prints and its exit status.                      *)
(***************************************************************************)
\* enum OutputFormat
Formats == {"human", "json"}

\* struct Output of a successful run over n files
AppOutput(cmd, n) ==
    [text |-> Msg(IF cmd \in PullCommands THEN "successfully pulled"
                  ELSE "successfully pushed", <<ToString(n)>>),
     json |-> [success |-> TRUE]]

\* a line on the standard output: a text, or a JSON object with its
\* "success" member and, in body, its "error" member if it has one
TextLine(text) == [json |-> FALSE, success |-> TRUE, body |-> <<text>>]
JsonLine(success, body) == [json |-> TRUE, success |-> success, body |-> body]

\* what the process has done when it ends
Exited(format, status, stdout) ==
    [format |-> format, status |-> status, stdout |-> stdout]

\* the exit status of a process whose main returned Ok(()) and Err(..)
ExitOk == 0
ExitErr == 1

\* a variant that returns Ok(()) once the failure is printed as JSON
mainJsonOk(format, res, output) ==
    IF res.ok
    THEN Exited(format, ExitOk,
                <<IF format = "human" THEN TextLine(output.text)
                  ELSE JsonLine(output.json.success, <<>>)>>)
    ELSE IF format = "human" THEN Exited(format, ExitErr, <<>>)
    ELSE Exited(format, ExitOk, <<JsonLine(FALSE, <<res.chain[1]>>)>>)

\* main: the match on what app returned and on the format; error.to_string()
\* is the outermost message of the report
main(format, res, output) ==
    IF res.ok
    THEN Exited(format, ExitOk,
                <<IF format = "human" THEN TextLine(output.text)
                  ELSE JsonLine(output.json.success, <<>>)>>)
    ELSE IF format = "human" THEN Exited(format, ExitErr, <<>>)
    ELSE Exited(format, ExitErr, <<JsonLine(FALSE, <<res.chain[1]>>)>>)

\* app returns res to main (None: app goes on); args.format is parsed when
\* the process starts and is first used here, where it is drawn
Returned(res, cmd, n) ==
    /\ result' = res
    /\ IF res = None THEN exited' = None
       ELSE \E format \in Formats :
                exited' = Some(main(format, res[1], AppOutput(cmd, n)))

\* a variant that lets a selection of nothing pass as a run over no entry
CheckSelectionNoOp(selected, config_files) == Ok

\* if files.is_empty() && !config.files.is_empty() { eyre::bail!(..) }
CheckSelection(selected, config_files) ==
    IF selected = <<>> /\ config_files # <<>>
    THEN Err(<<Msg("no files matching filter within", Absolute(ConfigArg))>>)
    ELSE Ok

\* app from the match on args.command on: the engine is run over selected
\* unless the selection was refused
Begin(cmd, selected, checked) ==
    /\ pc = "exit"
    /\ runs < MaxRuns
    /\ runs' = runs + 1
    /\ prev' = Snapshot
    /\ command' = cmd
    /\ working_path' = CommandWorkingPath(cmd)
    /\ files' = selected
    /\ value' = None
    /\ calls' = <<>>
    /\ IF ~checked.ok
       THEN /\ Returned(Some(checked), cmd, Len(selected))
            /\ pc' = "exit"
            /\ idx' = 0
       ELSE IF selected = <<>>
       THEN /\ Returned(Some(Ok), cmd, Len(selected))
            /\ pc' = "exit"
            /\ idx' = 0
       ELSE /\ Returned(None, cmd, Len(selected))
            /\ pc' = FirstStep(cmd)
            /\ idx' = 1
    /\ UNCHANGED <<store, disk, dirs, setCalls>>

Start(cmd, rev, order, flt) ==
    LET config_files == ReadConfigFiles(ConfigFiles(rev), order)
        selected == filter_files(config_files, flt)
    IN  /\ filter' = flt
        /\ UNCHANGED <<declared, manifest>>
        /\ Begin(cmd, selected, CheckSelection(selected, config_files))

StartPull ==
    \E rev \in Revisions, order \in IterationOrders(NumFiles), flt \in Filters :
        Start("pull", rev, order, flt)

StartPush ==
    \E rev \in Revisions, order \in IterationOrders(NumFiles), flt \in Filters :
        Start("push", rev, order, flt)

\* Commands::QuickPull and Commands::QuickPush: the engine is run over the
\* one file built from the arguments, whatever the manifest declares
QuickStart(cmd) ==
    /\ filter' = TargetFilter(None, None)
    /\ UNCHANGED <<declared, manifest>>
    /\ Begin(cmd, <<QuickFile>>, Ok)

StartQuickPull == QuickStart("quick-pull")

StartQuickPush == QuickStart("quick-push")

(***************************************************************************)
(* The answers of the secret manager service to the three requests.  A     *)
(* response is [ok |-> TRUE, ...] or [ok |-> FALSE, error |-> SdkError].   *)
(***************************************************************************)
Failed(error) == [ok |-> FALSE, error |-> error]

\* GetSecretValue
GetResponses(st, name) ==
    {Failed(e) : e \in BackendFaults} \cup
    {IF Exists(st, name)
     THEN [ok |-> TRUE,
           secret_string |-> st[name][1].secret_string,
           secret_binary |-> st[name][1].secret_binary]
     ELSE Failed(ResourceNotFound)}

\* CreateSecret
CreateResponses(st, req) ==
    {Failed(e) : e \in BackendFaults} \cup
    {IF Exists(st, req.name) THEN Failed(ResourceExists) ELSE [ok |-> TRUE]}

\* UpdateSecret
UpdateResponses(st, req) ==
    {Failed(e) : e \in BackendFaults} \cup
    {IF Exists(st, req.name) THEN [ok |-> TRUE] ELSE Failed(ResourceNotFound)}

(***************************************************************************)
(* AwsSecretManager::get_secret                                            *)
(***************************************************************************)
OkValue(v) == [ok |-> TRUE, chain |-> <<>>, value |-> v]

\* a variant that reports every failed request as the SDK's error
get_secret_generic(name, resp) ==
    IF ~resp.ok THEN ReportNew(resp.error)
    ELSE IF resp.secret_string # None
    THEN OkValue(SecretString(resp.secret_string[1]))
    ELSE IF resp.secret_binary # None
    THEN OkValue(SecretBinary(resp.secret_binary[1]))
    ELSE Err(<<Msg("no valid secret found for", name)>>)

\* a variant that looks at secret_binary before secret_string
get_secret_binary_first(name, resp) ==
    IF ~resp.ok
    THEN IF IsResourceNotFound(resp.error)
         THEN Err(<<Msg("secret not found", name)>>)
         ELSE ReportNew(resp.error)
    ELSE IF resp.secret_binary # None
    THEN OkValue(SecretBinary(resp.secret_binary[1]))
    ELSE IF resp.secret_string # None
    THEN OkValue(SecretString(resp.secret_string[1]))
    ELSE Err(<<Msg("no valid secret found for", name)>>)

\* what get_secret returns for a response of the service
get_secret(name, resp) ==
    IF ~resp.ok
    THEN IF IsResourceNotFound(resp.error)
         THEN Err(<<Msg("secret not found", name)>>)
         ELSE ReportNew(resp.error)
    ELSE IF resp.secret_string # None
    THEN OkValue(SecretString(resp.secret_string[1]))
    ELSE IF resp.secret_binary # None
    THEN OkValue(SecretBinary(resp.secret_binary[1]))
    ELSE Err(<<Msg("no valid secret found for", name)>>)

(***************************************************************************)
(* pull_secret_file, inside the loop of pull_secret_files.                 *)
(***************************************************************************)
\* let value = secret.get_secret(&file.secret).await?;
PullGet ==
    /\ pc = "pull_get"
    /\ LET file == files[idx]
       IN  \E resp \in GetResponses(store, file.secret) :
             LET got == get_secret(file.secret, resp)
                 next == AfterFailure(command, idx, Len(files))
             IN  /\ calls' = Append(calls,
                                    Call("get_secret", idx, file.secret, got.ok,
                                         CodeOf(resp)))
                 /\ IF got.ok
                    THEN /\ value' = Some(got.value)
                         /\ pc' = "pull_write"
                         /\ UNCHANGED <<idx, result, exited>>
                    ELSE /\ value' = None
                         /\ pc' = next.pc
                         /\ idx' = next.idx
                         /\ Returned(IF next.pc = "exit" THEN Some(got) ELSE None,
                                     command, Len(files))
    /\ UNCHANGED <<store, disk, dirs, runs, command, declared, manifest, filter,
                   working_path, files, setCalls, prev>>

\* failures of the file system that do not depend on the state of the disk
WriteFaults == {<<Msg("failed to write secret to file", NoArg), Msg("io error", NoArg)>>}
ReadFaults == {<<Msg("failed to read secret file", NoArg), Msg("io error", NoArg)>>}

\* the errors of write_file, outermost message first
MkdirFault ==
    <<Msg("failed to create parent directory for secret file", NoArg),
      Msg("io error", NoArg)>>

\* create_dir_all(parent) that failed: the ancestors it had created by then
\* stay, the directory itself is missing
MkdirFailures(ds, parent) ==
    {ds \cup {dir \in Ancestors(parent) : Len(dir) <= n} :
        n \in 0..(Len(parent) - 1)}

\* a variant that appends to the file instead of replacing its content
WriteOutcomesAppend(d, ds, path, bytes) ==
    LET parent == Parent(path)
        made == ds \cup Ancestors(parent)
    IN  (IF parent \notin ds
         THEN {[result |-> Err(MkdirFault), disk |-> d, dirs |-> left] :
                  left \in MkdirFailures(ds, parent)}
         ELSE {})
        \cup {[result |-> Err(f), disk |-> d, dirs |-> made] : f \in WriteFaults}
        \cup {[result |-> Ok,
               disk |-> [d EXCEPT ![path] =
                   Some((IF d[path] = None THEN <<>> ELSE d[path][1]) \o bytes)],
               dirs |-> made]}

\* a variant without create_dir_all: the write into a missing directory fails
WriteOutcomesNoMkdir(d, ds, path, bytes) ==
    LET parent == Parent(path)
    IN  {[result |-> Err(f), disk |-> d, dirs |-> ds] : f \in WriteFaults}
        \cup (IF parent \in ds
              THEN {[result |-> Ok, disk |-> [d EXCEPT ![path] = Some(bytes)],
                     dirs |-> ds]}
              ELSE {})

\* RealFs::write_file: the outcomes of writing bytes to path when the files
\* are d and the directories ds.  A missing parent is created with its
\* ancestors first, which can fail; then the file is written, which can fail
\* and leaves the directories created
WriteOutcomes(d, ds, path, bytes) ==
    LET parent == Parent(path)
        made == ds \cup Ancestors(parent)
    IN  (IF parent \notin ds
         THEN {[result |-> Err(MkdirFault), disk |-> d, dirs |-> left] :
                  left \in MkdirFailures(ds, parent)}
         ELSE {})
        \cup {[result |-> Err(f), disk |-> d, dirs |-> made] : f \in WriteFaults}
        \cup {[result |-> Ok, disk |-> [d EXCEPT ![path] = Some(bytes)],
               dirs |-> made]}

\* a variant without the test of existence: a file that does not exist is
\* read as an empty one
ReadOutcomesAbsentEmpty(d, path) ==
    IF d[path] = None
    THEN {OkValue(<<>>)}
    ELSE {Err(f) : f \in ReadFaults} \cup {OkValue(d[path][1])}

\* RealFs::read_file: the outcomes of reading path
ReadOutcomes(d, path) ==
    IF d[path] = None
    THEN {Err(<<Msg("cannot push secret, file does not exist", NoArg)>>)}
    ELSE {Err(f) : f \in ReadFaults} \cup {OkValue(d[path][1])}

\* fs.write_file(&file_path, value).await?; Ok(())
PullWrite ==
    /\ pc = "pull_write"
    /\ LET file == files[idx]
           file_path == ResolvePath(working_path, file.path)
       IN  \E out \in WriteOutcomes(disk, dirs, file_path, AsBytes(value[1])) :
             LET next == IF out.result.ok
                         THEN AfterSuccess(command, idx, Len(files))
                         ELSE AfterFailure(command, idx, Len(files))
             IN  /\ disk' = out.disk
                 /\ dirs' = out.dirs
                 /\ calls' = Append(calls,
                                    Call("write_file", idx, file_path,
                                         out.result.ok, FaultOf(out.result)))
                 /\ pc' = next.pc
                 /\ idx' = next.idx
                 /\ Returned(IF next.pc = "exit" THEN Some(out.result) ELSE None,
                             command, Len(files))
    /\ value' = None
    /\ UNCHANGED <<store, runs, command, declared, manifest, filter,
                   working_path, files, setCalls, prev>>

(***************************************************************************)
(* push_secret_file, inside the loop of push_secret_files.                 *)
(***************************************************************************)
\* let value = fs.read_file(&file_path).await?; and the match on from_utf8
PushRead ==
    /\ pc = "push_read"
    /\ LET file == files[idx]
           file_path == ResolvePath(working_path, file.path)
       IN  \E out \in ReadOutcomes(disk, file_path) :
             LET next == AfterFailure(command, idx, Len(files))
             IN  /\ calls' = Append(calls,
                                    Call("read_file", idx, file_path, out.ok,
                                         FaultOf(out)))
                 /\ IF out.ok
                    THEN /\ value' = Some(ClassifyBytes(out.value))
                         /\ pc' = "push_create"
                         /\ UNCHANGED <<idx, result, exited>>
                    ELSE /\ value' = None
                         /\ pc' = next.pc
                         /\ idx' = next.idx
                         /\ Returned(IF next.pc = "exit"
                                     THEN Some(Err(out.chain)) ELSE None,
                                     command, Len(files))
    /\ UNCHANGED <<store, disk, dirs, runs, command, declared, manifest, filter,
                   working_path, files, setCalls, prev>>

(***************************************************************************)
(* AwsSecretManager::set_secret                                            *)
(***************************************************************************)
\* one call of set_secret: its arguments, the store when it was called, the
\* requests it issued with their responses, what it returned (None while it
\* is running) and the store when it returned
SetCall(name, val, metadata, before, requests, ret, after) ==
    [name |-> name, value |-> val, metadata |-> metadata, before |-> before,
     requests |-> requests, ret |-> ret, after |-> after]

Exchange(req, resp) == [req |-> req, resp |-> resp]

\* a variant that falls back to the update on every failure of the create
AfterCreateAnyError(resp) ==
    IF resp.ok THEN "return_ok" ELSE "update"

\* a variant without the fallback: every failure of the create is returned
AfterCreateNoFallback(resp) ==
    IF resp.ok THEN "return_ok" ELSE "return_err"

\* a variant that takes the refusal of the create for success and leaves
\* the stored value as it is
AfterCreateExistsIsOk(resp) ==
    IF resp.ok THEN "return_ok"
    ELSE IF IsResourceExists(resp.error) THEN "return_ok"
    ELSE "return_err"

\* what set_secret does with the response to its create request:
\* Ok(_) => return Ok(()), the ResourceExists error => update, else the error
AfterCreate(resp) ==
    IF resp.ok THEN "return_ok"
    ELSE IF IsResourceExists(resp.error) THEN "update"
    ELSE "return_err"

\* a variant without the return after the update: the error of the create
\* is returned although the update succeeded
AfterUpdateFallThrough(resp) ==
    IF resp.ok THEN ReportNew(ResourceExists)
    ELSE Context("failed to update secret", ReportNew(resp.error))

\* what set_secret returns after its update request
AfterUpdate(resp) ==
    IF resp.ok THEN Ok
    ELSE Context("failed to update secret", ReportNew(resp.error))

\* a variant that returns the error of set_secret as it is
StoreContextNone(ret) == ret

\* push_secret_file: set_secret(..).await.context("failed to store secret")?
StoreContext(ret) == Context("failed to store secret", ret)

\* the end of push_secret_file once set_secret has returned ret; log is the
\* operations completed before the return
PushReturn(ret, log) ==
    LET file == files[idx]
        next == IF ret.ok
                THEN AfterSuccess(command, idx, Len(files))
                ELSE AfterFailure(command, idx, Len(files))
    IN  /\ calls' = Append(log, Call("set_secret", idx, file.secret, ret.ok, ""))
        /\ pc' = next.pc
        /\ idx' = next.idx
        /\ Returned(IF next.pc = "exit" THEN Some(StoreContext(ret)) ELSE None,
                    command, Len(files))
        /\ value' = None

\* set_secret up to the response to self.client.create_secret()...send().await
PushCreate ==
    /\ pc = "push_create"
    /\ LET file == files[idx]
           req == CreateRequest(file.secret, value[1], file.metadata)
       IN  \E resp \in CreateResponses(store, req) :
             LET step == AfterCreate(resp)
                 after == IF resp.ok THEN ServiceCreate(store, req) ELSE store
                 log == Append(calls,
                               Call("create_secret", idx, file.secret, resp.ok,
                                    CodeOf(resp)))
                 ret == IF step = "return_ok" THEN Ok ELSE ReportNew(resp.error)
                 call(r) == SetCall(file.secret, value[1], file.metadata, store,
                                    <<Exchange(req, resp)>>, r, after)
             IN  /\ store' = after
                 /\ IF step = "update"
                    THEN /\ setCalls' = Append(setCalls, call(None))
                         /\ calls' = log
                         /\ pc' = "push_update"
                         /\ UNCHANGED <<idx, result, value, exited>>
                    ELSE /\ setCalls' = Append(setCalls, call(Some(ret)))
                         /\ PushReturn(ret, log)
    /\ UNCHANGED <<disk, dirs, runs, command, declared, manifest, filter,
                   working_path, files, prev>>

\* set_secret from self.client.update_secret()...send().await to its return
PushUpdate ==
    /\ pc = "push_update"
    /\ LET file == files[idx]
           req == UpdateRequest(file.secret, value[1], file.metadata)
           cur == setCalls[Len(setCalls)]
       IN  \E resp \in UpdateResponses(store, req) :
             LET after == IF resp.ok THEN ServiceUpdate(store, req) ELSE store
                 log == Append(calls,
                               Call("update_secret", idx, file.secret, resp.ok,
                                    CodeOf(resp)))
                 ret == AfterUpdate(resp)
             IN  /\ store' = after
                 /\ setCalls' =
                        [setCalls EXCEPT ![Len(setCalls)] =
                            SetCall(cur.name, cur.value, cur.metadata, cur.before,
                                    Append(cur.requests, Exchange(req, resp)),
                                    Some(ret), after)]
                 /\ PushReturn(ret, log)
    /\ UNCHANGED <<disk, dirs, runs, command, declared, manifest, filter,
                   working_path, files, prev>>

Next ==
    \/ StartPull
    \/ StartPush
    \/ StartQuickPull
    \/ StartQuickPush
    \/ PullGet
    \/ PullWrite
    \/ PushRead
    \/ PushCreate
    \/ PushUpdate

Spec == Init /\ [][Next]_vars

(***************************************************************************)
(* Selection on its own: app from read_config_file to filter_files, over   *)
(* manifests of up to four entries and filters of names and globs.         *)
(***************************************************************************)
\* a [files.<name>] table as the repository's tests declare them
ManifestEntry(name) ==
    [name |-> name,
     file |-> [path |-> name \o <<".env">>, secret |-> <<"secret">> \o name,
               metadata |-> DefaultMetadata]]

\* manifest files: none, one entry, and a, b1, b2, c declared in two orders
SelectionManifests ==
    {<<>>,
     <<ManifestEntry(<<"a">>)>>,
     <<ManifestEntry(<<"a">>), ManifestEntry(<<"b", "1">>),
       ManifestEntry(<<"b", "2">>), ManifestEntry(<<"c">>)>>,
     <<ManifestEntry(<<"c">>), ManifestEntry(<<"b", "2">>),
       ManifestEntry(<<"a">>), ManifestEntry(<<"b", "1">>)>>}

\* values of TargetFilter.file and TargetFilter.glob
SelectionFileLists ==
    {None, Some(<<>>), Some(<< <<"a">> >>), Some(<< <<"a">>, <<"c">> >>),
     Some(<< <<"c">>, <<"a">> >>)}
SelectionGlobLists ==
    {None, Some(<<>>), Some(<< <<"b", "*">> >>),
     Some(<< <<"b", "*">>, <<"?">> >>), Some(<< <<"?">>, <<"b", "*">> >>),
     Some(<< <<"*", ".env">> >>)}

SelectionFilters ==
    {TargetFilter(f, g) : f \in SelectionFileLists, g \in SelectionGlobLists}

InitFilter ==
    /\ store = [name \in SecretNames |-> None]
    /\ disk = [path \in DiskPaths |-> None]
    /\ dirs = AllDirs
    /\ runs = 0
    /\ command = "none"
    /\ declared \in SelectionManifests
    /\ manifest = <<>>
    /\ filter \in SelectionFilters
    /\ working_path = <<>>
    /\ files = <<>>
    /\ idx = 0
    /\ pc = "select"
    /\ value = None
    /\ result = None
    /\ calls = <<>>
    /\ setCalls = <<>>
    /\ exited = None
    /\ prev = NoRun

\* let config = read_config_file(..); let files = filter_files(&config.files, &filter)
Select ==
    /\ pc = "select"
    /\ \E order \in IterationOrders(Len(declared)) :
          LET config_files == ReadConfigFiles(declared, order)
          IN  /\ manifest' = config_files
              /\ files' = filter_files(config_files, filter)
    /\ pc' = "selected"
    /\ UNCHANGED <<store, disk, dirs, runs, command, declared, filter, working_path,
                   idx, value, result, calls, setCalls, exited, prev>>

NextFilter == Select

SpecFilter == InitFilter /\ [][NextFilter]_vars

(***************************************************************************)
(* A pull from a compatible service whose GetSecretValue response can      *)
(* carry a string, a binary value, both or neither.                        *)
(***************************************************************************)
\* the secrets such a service can hold under a name
HeldSecrets ==
    {[secret_string |-> t, secret_binary |-> b,
      description |-> None, tags |-> None] :
        t \in {None, Some(Hello), Some(World)},
        b \in {None, Some(Hello), Some(Opaque)}}

\* a pull of every entry of the manifest, about to issue its first request
InitGet ==
    /\ store \in [SecretNames -> {None} \cup {Some(h) : h \in HeldSecrets}]
    /\ disk = [path \in DiskPaths |-> None]
    /\ dirs = AllDirs
    /\ runs = 1
    /\ command = "pull"
    /\ declared = <<>>
    /\ manifest = <<>>
    /\ filter = TargetFilter(None, None)
    /\ working_path = CommandWorkingPath("pull")
    /\ files = [i \in 1..NumFiles |-> SecretFile(i, 1)]
    /\ idx = 1
    /\ pc = "pull_get"
    /\ value = None
    /\ result = None
    /\ calls = <<>>
    /\ setCalls = <<>>
    /\ exited = None
    /\ prev = NoRun

NextGet ==
    \/ PullGet
    \/ PullWrite

SpecGet == InitGet /\ [][NextGet]_vars

(***************************************************************************)
(* Two invocations that upsert the same secret at the same time.  Each is  *)
(* inside set_secret for the secret of the first entry, with the value of  *)
(* its own file and the metadata of its own manifest; the service answers  *)
(* one request at a time and fails only as the state of the secret         *)
(* demands.  setCalls[p] is the call of invocation p.                      *)
(***************************************************************************)
Upserters == {1, 2}

\* the values the invocations push
UpsertValues == {ClassifyBytes(c) : c \in FileContents \cup {Hello}}

\* the answers of a service that is not at fault
Faultless(responses) == responses \ {Failed(e) : e \in BackendFaults}

InitConcurrent ==
    /\ store = [name \in SecretNames |-> None]
    /\ disk = [path \in DiskPaths |-> None]
    /\ dirs = AllDirs
    /\ runs = 2
    /\ command = "push"
    /\ declared = <<>>
    /\ manifest = <<>>
    /\ filter = TargetFilter(None, None)
    /\ working_path = CommandWorkingPath("push")
    /\ files = <<>>
    /\ idx = 0
    /\ pc = "set_secret"
    /\ value = None
    /\ result = None
    /\ calls = <<>>
    /\ \E vals \in [Upserters -> UpsertValues], revs \in [Upserters -> Revisions] :
           setCalls = [p \in Upserters |->
                          SetCall(EntrySecret(1), vals[p], EntryMetadata(1, revs[p]),
                                  store, <<>>, None, store)]
    /\ exited = None
    /\ prev = NoRun

\* invocation p gets the response to its create request
ConcurrentCreate(p) ==
    /\ pc = "set_secret"
    /\ setCalls[p].requests = <<>>
    /\ LET cur == setCalls[p]
           req == CreateRequest(cur.name, cur.value, cur.metadata)
       IN  \E resp \in Faultless(CreateResponses(store, req)) :
             LET step == AfterCreate(resp)
                 after == IF resp.ok THEN ServiceCreate(store, req) ELSE store
                 ret == IF step = "update" THEN None
                        ELSE IF step = "return_ok" THEN Some(Ok)
                        ELSE Some(ReportNew(resp.error))
             IN  /\ store' = after
                 /\ setCalls' =
                        [setCalls EXCEPT ![p] =
                            SetCall(cur.name, cur.value, cur.metadata, store,
                                    <<Exchange(req, resp)>>, ret, after)]
    /\ UNCHANGED <<disk, dirs, runs, command, declared, manifest, filter,
                   working_path, files, idx, pc, value, result, calls, exited,
                   prev>>

\* invocation p gets the response to its update request
ConcurrentUpdate(p) ==
    /\ pc = "set_secret"
    /\ Len(setCalls[p].requests) = 1
    /\ setCalls[p].ret = None
    /\ LET cur == setCalls[p]
           req == UpdateRequest(cur.name, cur.value, cur.metadata)
       IN  \E resp \in Faultless(UpdateResponses(store, req)) :
             LET after == IF resp.ok THEN ServiceUpdate(store, req) ELSE store
             IN  /\ store' = after
                 /\ setCalls' =
                        [setCalls EXCEPT ![p] =
                            SetCall(cur.name, cur.value, cur.metadata, cur.before,
                                    Append(cur.requests, Exchange(req, resp)),
                                    Some(AfterUpdate(resp)), after)]
    /\ UNCHANGED <<disk, dirs, runs, command, declared, manifest, filter,
                   working_path, files, idx, pc, value, result, calls, exited,
                   prev>>

NextConcurrent ==
    \E p \in Upserters : ConcurrentCreate(p) \/ ConcurrentUpdate(p)

SpecConcurrent == InitConcurrent /\ [][NextConcurrent]_vars

(***************************************************************************)
(* Properties of set_secret (the upsert protocol).                         *)
(***************************************************************************)
SetCallIds == 1..Len(setCalls)

\* the response was the failure with which the service refuses to create a
\* secret whose name exists
RefusedAsExisting(resp) ==
    ~resp.ok /\ resp.error.service /\ resp.error.code = "ResourceExistsException"

\* the call took the update path: create refused as existing, then update
TookUpdatePath(c) ==
    /\ Len(c.requests) = 2
    /\ c.requests[1].req.op = "CreateSecret"
    /\ RefusedAsExisting(c.requests[1].resp)
    /\ c.requests[2].req.op = "UpdateSecret"

\* C1: every call of set_secret issues the create request first, and issues
\* an update request only as its second request, after the create of the same
\* call failed as already existing; never after a create that succeeded.
C1_CreateFirstThenUpdate ==
    \A k \in SetCallIds :
        LET c == setCalls[k]
        IN  /\ Len(c.requests) \in {1, 2}
            /\ c.requests[1].req.op = "CreateSecret"
            /\ c.requests[1].req.name = c.name
            /\ Len(c.requests) = 2 => TookUpdatePath(c)
            /\ \A r \in 2..Len(c.requests) :
                   /\ c.requests[r].req.op = "UpdateSecret"
                   /\ ~c.requests[1].resp.ok

\* a call that updated after its create was refused, and returned success
C1_Witness ==
    \E k \in SetCallIds :
        /\ TookUpdatePath(setCalls[k])
        /\ setCalls[k].ret = Some(Ok)

\* the calls of set_secret for name whose create request succeeded
CreatingCalls(name) ==
    {k \in SetCallIds :
        setCalls[k].name = name /\ setCalls[k].requests[1].resp.ok}

\* the description and tags the service holds for an existing secret
StoredMetadata(st, name) ==
    [description |-> st[name][1].description, tags |-> st[name][1].tags]

\* the description and tags a call of set_secret was given, as sent
SentMetadata(c) ==
    [description |-> c.metadata.description, tags |-> TagsField(c.metadata)]

\* C2: the description and tags of a secret are those of the call of
\* set_secret that created it, whatever metadata later calls declare; a call
\* that did not create the secret leaves its description and tags as they
\* were; no update request carries a description or tags.
C2_CreateOnlyMetadata ==
    /\ \A name \in SecretNames :
           \A k \in CreatingCalls(name) :
               /\ Exists(store, name)
               /\ StoredMetadata(store, name) = SentMetadata(setCalls[k])
    /\ \A k \in SetCallIds :
           LET c == setCalls[k]
           IN  /\ (Exists(c.before, c.name) /\ c.ret # None) =>
                      StoredMetadata(c.after, c.name) =
                          StoredMetadata(c.before, c.name)
               /\ \A r \in 1..Len(c.requests) :
                      c.requests[r].req.op = "UpdateSecret" =>
                          /\ c.requests[r].req.description = None
                          /\ c.requests[r].req.tags = None

\* a secret created by one call and then updated by a later call that
\* declared other metadata
C2_Witness ==
    \E k1, k2 \in SetCallIds :
        /\ k1 < k2
        /\ setCalls[k1].name = setCalls[k2].name
        /\ k1 \in CreatingCalls(setCalls[k1].name)
        /\ TookUpdatePath(setCalls[k2])
        /\ setCalls[k2].ret = Some(Ok)
        /\ SentMetadata(setCalls[k2]) # SentMetadata(setCalls[k1])
        /\ StoredMetadata(store, setCalls[k1].name) = SentMetadata(setCalls[k1])

\* the service answered every request of the call, or refused the create as
\* existing: it injected no failure of its own
NoFault(c) ==
    \A r \in 1..Len(c.requests) :
        c.requests[r].resp.ok \/ RefusedAsExisting(c.requests[r].resp)

\* C3: two calls of set_secret in a row with the same name and value, the
\* first of which returned success: the second leaves the store (the value
\* and the metadata of every secret) as the first left it, and unless the
\* service fails it takes the update path and returns success; when the
\* secret did not exist before, the first call created it.
C3_IdempotentUpsert ==
    \A k \in SetCallIds :
        k + 1 \in SetCallIds =>
            LET a == setCalls[k]
                b == setCalls[k + 1]
            IN  (/\ a.name = b.name
                 /\ a.value = b.value
                 /\ a.ret = Some(Ok)
                 /\ b.ret # None) =>
                    /\ b.after = a.after
                    /\ NoFault(b) => (b.ret = Some(Ok) /\ TookUpdatePath(b))
                    /\ ~Exists(a.before, a.name) =>
                           (Len(a.requests) = 1 /\ a.requests[1].resp.ok)

\* the same name and value upserted twice in a row: created, then updated
C3_Witness ==
    \E k \in SetCallIds :
        /\ k + 1 \in SetCallIds
        /\ setCalls[k].name = setCalls[k + 1].name
        /\ setCalls[k].value = setCalls[k + 1].value
        /\ ~Exists(setCalls[k].before, setCalls[k].name)
        /\ setCalls[k].ret = Some(Ok)
        /\ setCalls[k + 1].ret = Some(Ok)
        /\ TookUpdatePath(setCalls[k + 1])

(***************************************************************************)
(* Properties of the batch engines pull_secret_files, push_secret_files.   *)
(***************************************************************************)
CallIds == 1..Len(calls)

\* the operations of the SecretManager and FileSystem traits
CapabilityOps == {"get_secret", "write_file", "read_file", "set_secret"}

IsPrefix(s, t) == Len(s) <= Len(t) /\ SubSeq(t, 1, Len(s)) = s

\* the run returned an error
RunFailed == result # None /\ ~result[1].ok

\* the run returned Ok
RunSucceeded == result # None /\ result[1].ok

\* C4: when an operation of the trait objects fails for entry k, the run
\* has returned a failure, that operation is the last one of the run, and no
\* operation at all (get, create, update, read, write) was issued for an
\* entry after k.
C4_FailFast ==
    \A j \in CallIds :
        (calls[j].op \in CapabilityOps /\ ~calls[j].ok) =>
            /\ RunFailed
            /\ pc = "exit"
            /\ j = Len(calls)
            /\ idx = calls[j].idx
            /\ \A i \in CallIds : calls[i].idx <= calls[j].idx

\* a run over two or more entries that failed on an entry before the last
C4_Witness ==
    /\ RunFailed
    /\ calls # <<>>
    /\ ~calls[Len(calls)].ok
    /\ calls[Len(calls)].idx < Len(files)

\* the operations of the traits, in the order they completed
RECURSIVE CapabilityCalls(_)
CapabilityCalls(log) ==
    IF log = <<>> THEN <<>>
    ELSE LET c == log[Len(log)]
         IN  CapabilityCalls(SubSeq(log, 1, Len(log) - 1)) \o
             (IF c.op \in CapabilityOps
              THEN << <<c.op, c.idx, c.target>> >> ELSE <<>>)

\* the operations a successful run over the entries issues
RECURSIVE ExpectedCalls(_, _, _)
ExpectedCalls(cmd, entries, i) ==
    IF i > Len(entries) THEN <<>>
    ELSE LET path == IF entries[i].path[1] = "/" THEN entries[i].path
                     ELSE working_path \o entries[i].path
         IN  (IF cmd \in PullCommands
              THEN << <<"get_secret", i, entries[i].secret>>,
                      <<"write_file", i, path>> >>
              ELSE << <<"read_file", i, path>>,
                      <<"set_secret", i, entries[i].secret>> >>)
             \o ExpectedCalls(cmd, entries, i + 1)

\* C5: the operations of a run are, in order, get then write (pull) or read
\* then set_secret (push) of entry 1, then of entry 2, and so on, each once;
\* a successful run has issued all of them.
C5_SequentialOrder ==
    /\ IsPrefix(CapabilityCalls(calls), ExpectedCalls(command, files, 1))
    /\ RunSucceeded =>
           CapabilityCalls(calls) = ExpectedCalls(command, files, 1)

\* a successful run over two or more entries
C5_Witness ==
    /\ RunSucceeded
    /\ Len(files) >= 2
    /\ Len(CapabilityCalls(calls)) = 2 * Len(files)

\* the entries whose side effect has taken place in this run
Effected ==
    {calls[j].idx : j \in {i \in CallIds :
        calls[i].op \in {"write_file", "set_secret"} /\ calls[i].ok}}

\* C6: in every state of a run the entries whose file was written (pull) or
\* whose secret was upserted (push) are the first m entries of the run.
C6_PrefixInvariant ==
    \E m \in 0..Len(files) : Effected = 1..m

\* a failed run that had completed an entry and left a later one untouched
C6_Witness ==
    /\ RunFailed
    /\ Effected # {}
    /\ Cardinality(Effected) < Len(files)
    /\ idx = Cardinality(Effected) + 1

(***************************************************************************)
(* Running the same command again.                                         *)
(***************************************************************************)
SameEntries(a, b) ==
    /\ Len(a) = Len(b)
    /\ \A i \in 1..Len(a) : a[i].path = b[i].path /\ a[i].secret = b[i].secret

\* this invocation runs the command of the previous one over the same entries
Rerun ==
    /\ prev.command = command
    /\ prev.result # None
    /\ files # <<>>
    /\ SameEntries(prev.files, files)

\* the entries the previous invocation completed
PrevEffected ==
    {prev.calls[j].idx : j \in {i \in 1..Len(prev.calls) :
        prev.calls[i].op \in {"write_file", "set_secret"} /\ prev.calls[i].ok}}

\* the file (pull) or the stored secret (push) of entry j is as the previous
\* invocation left it
AsLeftByPrev(j) ==
    LET path == IF files[j].path[1] = "/" THEN files[j].path
                ELSE working_path \o files[j].path
    IN  IF command \in PullCommands
        THEN disk[path] = prev.disk[path]
        ELSE store[files[j].secret] = prev.store[files[j].secret]

\* C7: when a run is executed again over the same entries (no file and no
\* secret having been changed in between), every entry the first run had
\* completed keeps, throughout and at the end of the second run, the file
\* content (pull) or the stored value and metadata (push) the first run left;
\* a run that succeeds twice leaves the disk and the store as after the first.
C7_RerunIdempotent ==
    Rerun =>
        /\ \A j \in PrevEffected : AsLeftByPrev(j)
        /\ (prev.result[1].ok /\ RunSucceeded) =>
               (disk = prev.disk /\ store = prev.store)

\* a run that failed after completing an entry, run again to success
C7_Witness ==
    /\ Rerun
    /\ ~prev.result[1].ok
    /\ PrevEffected # {}
    /\ RunSucceeded
    /\ Effected = 1..Len(files)

(***************************************************************************)
(* Error handling of get_secret and set_secret.                            *)
(***************************************************************************)
\* C8: when the service reports that the secret of a pulled entry does not
\* exist, the run fails with the error "secret <name> not found" carrying the
\* name of the secret, not with the SDK's error, and no file is written for
\* the entry; a get of an absent secret never succeeds.
C8_NotFoundPropagation ==
    \A j \in CallIds :
        calls[j].op = "get_secret" =>
            /\ calls[j].code = "ResourceNotFoundException" =>
                   /\ RunFailed
                   /\ result[1].chain = <<Msg("secret not found", calls[j].target)>>
                   /\ \A i \in CallIds :
                          ~(calls[i].op = "write_file" /\ calls[i].idx = calls[j].idx)
            /\ ~Exists(store, calls[j].target) =>
                   (~calls[j].ok /\ calls[j].code # "")

\* a pull of an entry whose secret is absent, answered by the service
C8_Witness ==
    /\ command = "pull"
    /\ calls # <<>>
    /\ calls[Len(calls)].op = "get_secret"
    /\ calls[Len(calls)].code = "ResourceNotFoundException"
    /\ ~Exists(store, calls[Len(calls)].target)
    /\ RunFailed
    /\ idx = calls[Len(calls)].idx

\* C9: a call of set_secret whose create request fails with anything but the
\* already-exists error returns the SDK's error, has issued no update request
\* and leaves the store as it was.
C9_CreateErrorSurfaced ==
    \A k \in SetCallIds :
        LET c == setCalls[k]
            first == c.requests[1].resp
        IN  (~first.ok /\ ~RefusedAsExisting(first)) =>
                /\ c.ret = Some(Err(<<Msg(first.error.code, NoArg)>>))
                /\ Len(c.requests) = 1
                /\ c.after = c.before
                /\ k = Len(setCalls) => store = c.before

\* a create that failed with a service error on a secret that exists
C9_Witness ==
    \E k \in SetCallIds :
        /\ ~setCalls[k].requests[1].resp.ok
        /\ setCalls[k].requests[1].resp.error.code = "InternalServiceError"
        /\ Exists(setCalls[k].before, setCalls[k].name)
        /\ setCalls[k].ret # None

\* the value fields the service holds for a secret are those of the value
StoredValueIs(st, name, val) ==
    /\ Exists(st, name)
    /\ st[name][1].secret_string =
           (IF val.kind = "String" THEN <<val.bytes>> ELSE <<>>)
    /\ st[name][1].secret_binary =
           (IF val.kind = "Binary" THEN <<val.bytes>> ELSE <<>>)

MentionsAlreadyExists(r) ==
    \E m \in 1..Len(r.chain) : r.chain[m].msg = "ResourceExistsException"

\* C10: a call of set_secret for a name that exists whose update request
\* succeeds returns success and leaves the pushed value in the store; no
\* call of set_secret and no run returns the already-exists error.
C10_AlreadyExistsNotSurfaced ==
    /\ \A k \in SetCallIds :
           LET c == setCalls[k]
           IN  /\ (/\ Exists(c.before, c.name)
                   /\ Len(c.requests) = 2
                   /\ c.requests[2].resp.ok) =>
                       /\ c.ret = Some(Ok)
                       /\ StoredValueIs(c.after, c.name, c.value)
               /\ c.ret # None => ~MentionsAlreadyExists(c.ret[1])
    /\ result # None => ~MentionsAlreadyExists(result[1])

\* a push that replaced the value of an existing secret by another one
C10_Witness ==
    \E k \in SetCallIds :
        LET c == setCalls[k]
        IN  /\ Exists(c.before, c.name)
            /\ c.ret = Some(Ok)
            /\ c.after[c.name][1].secret_string # c.before[c.name][1].secret_string
            /\ StoredValueIs(store, c.name, c.value)

(***************************************************************************)
(* Push and pull of one entry.                                             *)
(***************************************************************************)
\* the path the file operation of an entry is issued on, under working
PathUnder(working, file) ==
    IF file.path[1] = "/" THEN file.path ELSE working \o file.path

\* byte strings of the model that are well-formed UTF-8
TextContents == {Hello, World}

\* entry j of the previous invocation and entry i of this one are the same
\* entry: the same secret and the same file
SameEntry(j, i) ==
    /\ prev.files[j].secret = files[i].secret
    /\ PathUnder(prev.working_path, prev.files[j]) = PathUnder(working_path, files[i])

\* this invocation pulls and the previous one pushed
PullAfterPush == command \in PullCommands /\ prev.command \in {"push", "quick-push"}

\* C11: when an entry whose file holds well-formed UTF-8 was pushed
\* successfully and the next invocation has pulled the same entry
\* successfully, the file holds the bytes it held when it was pushed.
C11_RoundTrip ==
    PullAfterPush =>
        \A j \in PrevEffected, i \in Effected :
            LET path == PathUnder(working_path, files[i])
            IN  (/\ SameEntry(j, i)
                 /\ prev.disk[path] # None
                 /\ prev.disk[path][1] \in TextContents) =>
                    disk[path] = prev.disk[path]

\* a text file pushed over a secret that held another value, then pulled
C11_Witness ==
    /\ PullAfterPush
    /\ RunSucceeded
    /\ \E j \in PrevEffected, i \in Effected :
           LET path == PathUnder(working_path, files[i])
           IN  /\ SameEntry(j, i)
               /\ prev.disk[path] = Some(World)
               /\ disk[path] = Some(World)
               /\ store[files[i].secret][1].secret_string = Some(World)
               /\ \E k \in SetCallIds :
                      /\ setCalls[k].name = files[i].secret
                      /\ TookUpdatePath(setCalls[k])

\* the bytes of the value the service holds for an existing secret
StoredBytes(st, name) ==
    IF st[name][1].secret_string # None
    THEN st[name][1].secret_string[1]
    ELSE st[name][1].secret_binary[1]

\* C12: once an entry has been pulled, its file at the resolved path holds
\* exactly the bytes of the value stored under the entry's secret (the
\* string's bytes or the binary bytes), whatever it held before; a pull run
\* has returned success if and only if every entry has been pulled.
C12_PullPostcondition ==
    command \in PullCommands =>
        /\ \A i \in Effected :
               /\ Exists(store, files[i].secret)
               /\ disk[PathUnder(working_path, files[i])] =
                      Some(StoredBytes(store, files[i].secret))
        /\ (files # <<>> /\ Effected = 1..Len(files)) <=> (RunSucceeded /\ files # <<>>)

\* a pull of a binary secret into a file that held something else
C12_Witness ==
    /\ command \in PullCommands
    /\ RunSucceeded
    /\ \E i \in Effected :
           LET path == PathUnder(working_path, files[i])
           IN  /\ store[files[i].secret][1].secret_string = None
               /\ store[files[i].secret][1].secret_binary = Some(Opaque)
               /\ prev.disk[path] = Some(Hello)
               /\ disk[path] = Some(Opaque)

(***************************************************************************)
(* Properties of the selection.                                            *)
(***************************************************************************)
\* the pairs <<pattern, name>> of the patterns and entry names above for
\* which the pattern matches the name
GlobTable ==
    {<< <<"b", "*">>, <<"b", "1">> >>, << <<"b", "*">>, <<"b", "2">> >>,
     << <<"?">>, <<"a">> >>, << <<"?">>, <<"c">> >>}

\* the name is listed in filter.file or matched by a pattern of filter.glob
NamedOrGlobbed(name) ==
    \/ /\ filter.file # None
       /\ \E k \in 1..Len(filter.file[1]) : filter.file[1][k] = name
    \/ /\ filter.glob # None
       /\ \E g \in 1..Len(filter.glob[1]) : <<filter.glob[1][g], name>> \in GlobTable

FilterGiven == filter.file # None \/ filter.glob # None

\* the filter of the example: names = ["a"], globs = ["b*"]
ExampleFilter == TargetFilter(Some(<< <<"a">> >>), Some(<< <<"b", "*">> >>))

\* C13: with a filter given, the selection holds each entry of the manifest
\* whose name is listed or matches a pattern, once, and no other entry;
\* names = ["a"], globs = ["b*"] over a, b1, b2, c selects a, b1, b2.
C13_FilterOr ==
    (pc = "selected" /\ FilterGiven) =>
        /\ {files[i] : i \in 1..Len(files)} =
               {declared[i].file : i \in {k \in 1..Len(declared) :
                                            NamedOrGlobbed(declared[k].name)}}
        /\ \A i, j \in 1..Len(files) : files[i] = files[j] => i = j
        /\ (filter = ExampleFilter /\ Len(declared) = 4) =>
               {files[i] : i \in 1..Len(files)} =
                   {ManifestEntry(n).file : n \in {<<"a">>, <<"b", "1">>, <<"b", "2">>}}

\* the example: a, b1 and b2 selected out of a, b1, b2, c
C13_Witness ==
    /\ pc = "selected"
    /\ filter = ExampleFilter
    /\ Len(declared) = 4
    /\ Len(files) = 3
    /\ \A i \in 1..3 : files[i] # ManifestEntry(<<"c">>).file

RECURSIVE IsSubsequence(_, _)
IsSubsequence(s, t) ==
    IF s = <<>> THEN TRUE
    ELSE IF t = <<>> THEN FALSE
    ELSE IF s[1] = t[1] THEN IsSubsequence(Tail(s), Tail(t))
    ELSE IsSubsequence(s, Tail(t))

\* the files of the manifest in the order of their declaration
DeclaredFiles == [i \in 1..Len(declared) |-> declared[i].file]

\* C14: the selection is a subsequence of the manifest's entries in the
\* order in which the configuration file declares them.
C14_OrderPreservation ==
    pc = "selected" => IsSubsequence(files, DeclaredFiles)

\* a list of the filter is absent or empty
EmptyOrAbsent(list) == list = None \/ list = Some(<<>>)

\* C15: when filter.file and filter.glob are both empty or absent, the
\* selection is the whole manifest, in the order of its declaration.
C15_MatchEverything ==
    (pc = "selected" /\ EmptyOrAbsent(filter.file) /\ EmptyOrAbsent(filter.glob)) =>
        files = DeclaredFiles

(***************************************************************************)
(* Properties of filtered runs of the pull and push commands.              *)
(***************************************************************************)
FilteredCommands == {"pull", "push"}

\* the entries the manifest declares (by position in the declaration) that
\* the filter of the invocation leaves out
Unselected ==
    {i \in 1..NumFiles : FilterGiven /\ ~NamedOrGlobbed(EntryName(i))}

\* C16: a pull or push whose filter selects none of the entries of a
\* manifest that declares some has returned the error "no files matching
\* filter", has issued no operation on the store or on a file, and has left
\* both as they were.
C16_FilterEmpty ==
    (command \in FilteredCommands /\ Unselected = 1..NumFiles) =>
        /\ pc = "exit"
        /\ RunFailed
        /\ Len(result[1].chain) = 1
        /\ result[1].chain[1].msg = "no files matching filter within"
        /\ calls = <<>>
        /\ store = prev.store
        /\ disk = prev.disk

\* a push with a filter that names no entry, over files that exist
C16_Witness ==
    /\ command = "push"
    /\ filter = TargetFilter(Some(<< <<"c">> >>), None)
    /\ RunFailed
    /\ calls = <<>>
    /\ \A i \in 1..NumFiles : disk[PathUnder(WorkingPath, SecretFile(i, 1))] # None

\* C17: in a pull or push run, an entry of the manifest that the filter
\* does not select has no operation issued on its secret or on its file; its
\* secret and its file are as they were when the run started.
C17_UnselectedUntouched ==
    command \in FilteredCommands =>
        \A i \in Unselected :
            LET path == PathUnder(WorkingPath, SecretFile(i, 1))
            IN  /\ \A j \in CallIds :
                       calls[j].target \notin {EntrySecret(i), path}
                /\ store[EntrySecret(i)] = prev.store[EntrySecret(i)]
                /\ disk[path] = prev.disk[path]

\* a filtered push that succeeded and left the secret of the entry it did
\* not select absent, although that entry's file exists
C17_Witness ==
    /\ command = "push"
    /\ RunSucceeded
    /\ Effected # {}
    /\ \E i \in Unselected :
           /\ ~Exists(store, EntrySecret(i))
           /\ disk[PathUnder(WorkingPath, SecretFile(i, 1))] # None

(***************************************************************************)
(* Where the files of the manifest's entries are read and written.         *)
(***************************************************************************)
\* the directory of the manifest that is given with --config
ManifestDir == <<"/", "cfg">>

FileOps == {"read_file", "write_file"}

SetCallsOfRun ==
    Cardinality({j \in CallIds : calls[j].op = "create_secret"})

\* the call of set_secret this run made for its entry i
SetCallOf(i) == setCalls[Len(setCalls) - SetCallsOfRun + i]

\* the value fields of a request carry the value as a string only
SentAsString(req, bytes) ==
    req.secret_string = <<bytes>> /\ req.secret_binary = <<>>

\* the value fields of a request carry the value as binary only
SentAsBinary(req, bytes) ==
    req.secret_binary = <<bytes>> /\ req.secret_string = <<>>

\* C19: every call of set_secret of a push run is made with exactly the
\* bytes of the entry's file, as a String when they are well-formed UTF-8
\* and as Binary otherwise; each create and update request of a call carries
\* a String in secret_string only and a Binary in secret_binary only.
C19_PushClassification ==
    /\ command \notin PullCommands =>
           \A i \in 1..SetCallsOfRun :
               LET c == SetCallOf(i)
                   content == disk[PathUnder(working_path, files[i])]
               IN  /\ c.name = files[i].secret
                   /\ content = Some(c.value.bytes)
                   /\ c.value.kind = (IF c.value.bytes \in TextContents
                                      THEN "String" ELSE "Binary")
    /\ \A k \in SetCallIds :
           \A r \in 1..Len(setCalls[k].requests) :
               LET req == setCalls[k].requests[r].req
                   val == setCalls[k].value
               IN  /\ val.kind = "String" => SentAsString(req, val.bytes)
                   /\ val.kind = "Binary" => SentAsBinary(req, val.bytes)
                   /\ ~(req.secret_string # None /\ req.secret_binary # None)

\* a push that sent a text file by create and a binary file by create and
\* update
C19_Witness ==
    /\ command = "push"
    /\ RunSucceeded
    /\ \E i, j \in 1..SetCallsOfRun :
           /\ SetCallOf(i).value = SecretString(World)
           /\ Len(SetCallOf(i).requests) = 1
           /\ SetCallOf(j).value = SecretBinary(Opaque)
           /\ TookUpdatePath(SetCallOf(j))
           /\ SentAsBinary(SetCallOf(j).requests[2].req, Opaque)

(***************************************************************************)
(* What get_secret returns.                                                *)
(***************************************************************************)
\* the secret held for the entry the pull is at
HeldForEntry == store[files[idx].secret][1]

\* C20: the value a successful get_secret has returned is a String or a
\* Binary; it is the String of secret_string whenever the response carries
\* one, also when it carries a binary value as well, and the Binary of
\* secret_binary only when there is no string.
C20_GetOneTextFirst ==
    pc = "pull_write" =>
        /\ value # None
        /\ value[1].kind \in {"String", "Binary"}
        /\ Exists(store, files[idx].secret)
        /\ HeldForEntry.secret_string # None =>
               value[1] = [kind |-> "String", bytes |-> HeldForEntry.secret_string[1]]
        /\ HeldForEntry.secret_string = None =>
               /\ HeldForEntry.secret_binary # None
               /\ value[1] = [kind |-> "Binary", bytes |-> HeldForEntry.secret_binary[1]]

\* a get answered with a string and a binary value that returned the string
C20_Witness ==
    /\ pc = "pull_write"
    /\ HeldForEntry.secret_string = Some(Hello)
    /\ HeldForEntry.secret_binary = Some(Opaque)
    /\ value = Some([kind |-> "String", bytes |-> Hello])
    /\ calls[Len(calls)].op = "get_secret"
    /\ calls[Len(calls)].ok

(***************************************************************************)
(* The process: exit status and output.                                    *)
(***************************************************************************)
\* the one line a run prints in the JSON format when it failed
FailureObject == JsonLine(FALSE, <<result[1].chain[1]>>)

\* the process reported success: it exited with status 0 or printed a line
\* that says success
SuccessReported ==
    /\ exited # None
    /\ \/ exited[1].status = 0
       \/ \E k \in 1..Len(exited[1].stdout) : exited[1].stdout[k].success

\* C21: the process has exited exactly when app has returned; when app
\* returned a failure (of an operation or of the test of the selection) the
\* exit status is not 0 in both formats, and in the JSON format the output is
\* the one object with "success": false and the error's message; success is
\* reported only when the run returned Ok and every selected entry had its
\* side effect.
C21_ExitStatus ==
    /\ (exited # None) <=> (result # None)
    /\ RunFailed =>
           /\ exited[1].status # 0
           /\ exited[1].format = "json" =>
                  exited[1].stdout = <<FailureObject>>
           /\ exited[1].format = "human" => exited[1].stdout = <<>>
    /\ SuccessReported =>
           /\ RunSucceeded
           /\ Effected = 1..Len(files)
           /\ Len(exited[1].stdout) = 1

\* a pull in the JSON format of a secret the service does not hold, after an
\* entry that was pulled
C21_Witness ==
    /\ command = "pull"
    /\ RunFailed
    /\ exited # None
    /\ exited[1].format = "json"
    /\ exited[1].status = 1
    /\ Effected = {1}
    /\ idx = 2
    /\ exited[1].stdout =
           <<JsonLine(FALSE, <<Msg("secret not found", files[idx].secret)>>)>>

(***************************************************************************)
(* The errors the engine returns.                                          *)
(***************************************************************************)
\* the failed operations of the traits in this run
FailedCalls == {j \in CallIds : calls[j].op \in CapabilityOps /\ ~calls[j].ok}

\* the operation of call j was issued once for its entry
IssuedOnce(j) ==
    Cardinality({i \in CallIds : calls[i].op = calls[j].op
                                 /\ calls[i].idx = calls[j].idx}) = 1

\* the failed operation j ended the run: the run returned a failure, nothing
\* was issued after j, and j was not issued again
ReturnedImmediately(j) ==
    /\ RunFailed
    /\ j = Len(calls)
    /\ IssuedOnce(j)

\* the report get_secret makes of a failed request with this error code
GetReport(code, name) ==
    IF code = "ResourceNotFoundException" THEN <<Msg("secret not found", name)>>
    ELSE IF code = "" THEN <<Msg("no valid secret found for", name)>>
    ELSE <<Msg(code, NoArg)>>

\* C22 as stated: a failed get of a pull is returned under the message
\* "failed to retrieve secret" and a failed upsert of a push under the message
\* "failed to store secret", each at once and without a retry.
C22_AnnotatedErrors ==
    \A j \in FailedCalls :
        /\ ReturnedImmediately(j)
        /\ calls[j].op = "get_secret" =>
               result[1].chain[1] = Msg("failed to retrieve secret", NoArg)
        /\ calls[j].op = "set_secret" =>
               result[1].chain[1] = Msg("failed to store secret", NoArg)

\* C22, amended: a failed operation ends the run at once and is not issued
\* again; the error of a failed upsert is returned under the added message
\* "failed to store secret", while the error of a failed get is returned as
\* get_secret made it, with no message added, and the errors of read_file and
\* write_file are returned as the file system made them.
C22_ErrorsReturned ==
    \A j \in FailedCalls :
        /\ ReturnedImmediately(j)
        /\ calls[j].op = "get_secret" =>
               result[1].chain = GetReport(calls[j].code, calls[j].target)
        /\ calls[j].op = "set_secret" =>
               /\ setCalls # <<>>
               /\ setCalls[Len(setCalls)].ret # None
               /\ result[1].chain =
                      <<Msg("failed to store secret", NoArg)>>
                      \o setCalls[Len(setCalls)].ret[1].chain
        /\ calls[j].op = "read_file" =>
               result[1].chain[1].msg \in
                   {"cannot push secret, file does not exist",
                    "failed to read secret file"}
        /\ calls[j].op = "write_file" =>
               result[1].chain[1].msg \in
                   {"failed to write secret to file",
                    "failed to create parent directory for secret file"}

\* a pull whose get was answered with an internal error of the service: the
\* run returned the SDK's error with nothing added
C22_Witness ==
    /\ command \in PullCommands
    /\ RunFailed
    /\ calls # <<>>
    /\ calls[Len(calls)].op = "get_secret"
    /\ calls[Len(calls)].code = "InternalServiceError"
    /\ result[1].chain = <<Msg("InternalServiceError", NoArg)>>

(***************************************************************************)
(* The requests of one upsert.                                             *)
(***************************************************************************)
\* the requests to the service in the log of this run, for entry i
ServiceOps == {"get_secret", "create_secret", "update_secret"}

RequestsFor(i) ==
    {j \in CallIds : calls[j].op \in ServiceOps /\ calls[j].idx = i}

\* the number of requests a call of set_secret issues, given the response
\* to its first
RequestsDue(resp) == IF RefusedAsExisting(resp) THEN 2 ELSE 1

\* C23: a call of set_secret that has returned issued one request, the
\* create, when the create succeeded or failed with anything but the
\* already-exists error, and two, the create then the update, when the
\* create was refused as already existing; a push issues no request but these
\* (no get, no test of existence) and never more than two for an entry.
C23_RequestCount ==
    /\ \A k \in SetCallIds :
           LET c == setCalls[k]
           IN  /\ c.ret # None =>
                      Len(c.requests) = RequestsDue(c.requests[1].resp)
               /\ c.ret = None =>
                      (Len(c.requests) = 1 /\ RefusedAsExisting(c.requests[1].resp))
               /\ [r \in 1..Len(c.requests) |-> c.requests[r].req.op] \in
                      {<<"CreateSecret">>, <<"CreateSecret", "UpdateSecret">>}
    /\ command \notin PullCommands =>
           \A i \in 1..Len(files) :
               /\ Cardinality(RequestsFor(i)) <= 2
               /\ \A j \in RequestsFor(i) : calls[j].op # "get_secret"
               /\ (i < idx \/ pc = "exit") /\ RequestsFor(i) # {} =>
                      Cardinality(RequestsFor(i)) =
                          Len(SetCallOf(Cardinality({n \in 1..i :
                                  RequestsFor(n) # {}})).requests)

\* a push of two entries: the first was created with one request, the second
\* existed and took two
C23_Witness ==
    /\ command = "push"
    /\ RunSucceeded
    /\ Len(files) = 2
    /\ Cardinality(RequestsFor(1)) = 1
    /\ Cardinality(RequestsFor(2)) = 2
    /\ Len(setCalls[Len(setCalls)].requests) = 2
    /\ Len(setCalls[Len(setCalls) - 1].requests) = 1

(***************************************************************************)
(* write_file and the directories.                                         *)
(***************************************************************************)
WriteFailed == "failed to write secret to file"
MkdirFailed == "failed to create parent directory for secret file"

\* the calls of write_file in a log
WritesOf(log) == {j \in 1..Len(log) : log[j].op = "write_file"}

\* C24: write_file leaves the parent directory of the file and its ancestors
\* existing whenever it got as far as the write, whether the write succeeded
\* or failed; a directory that exists is never removed, so the directories a
\* failed write created are there when the run ends and when the next run
\* starts; a write_file into a directory that existed when the run started
\* never fails on the creation of directories, and when it succeeds the file
\* exists in its directory.
C24_ParentDirectories ==
    /\ prev.started \subseteq prev.dirs
    /\ prev.dirs \subseteq dirs
    /\ \A path \in DiskPaths : disk[path] # None => Parent(path) \in dirs
    /\ \A j \in WritesOf(calls) :
           LET c == calls[j]
           IN  /\ c.code \in {"", WriteFailed, MkdirFailed}
               /\ c.code # MkdirFailed =>
                      Ancestors(Parent(c.target)) \subseteq dirs
               /\ c.code = MkdirFailed =>
                      (Parent(c.target) \notin prev.dirs /\ Parent(c.target) \notin dirs)
               /\ c.ok => disk[c.target] # None
    /\ \A j \in WritesOf(prev.calls) :
           prev.calls[j].code = WriteFailed =>
               Ancestors(Parent(prev.calls[j].target)) \subseteq prev.dirs

\* a pull whose write failed after it had created the missing directory of
\* the file, followed by a pull that found the directory and wrote the file
C24_Witness ==
    /\ command = "pull"
    /\ prev.command = "pull"
    /\ \E j \in WritesOf(prev.calls) : \E i \in WritesOf(calls) :
           /\ prev.calls[j].code = WriteFailed
           /\ Parent(prev.calls[j].target) \notin prev.started
           /\ Parent(prev.calls[j].target) \in prev.dirs
           /\ prev.disk[prev.calls[j].target] = None
           /\ calls[i].target = prev.calls[j].target
           /\ calls[i].ok
           /\ disk[calls[i].target] # None

(***************************************************************************)
(* Concurrent upserts of one secret.                                       *)
(***************************************************************************)
\* invocation p has returned from set_secret
Returned2(p) == setCalls[p].ret # None

\* the create of invocation p succeeded
CreateWon(p) ==
    /\ setCalls[p].requests # <<>>
    /\ setCalls[p].requests[1].resp.ok

\* C25: when two invocations upsert the same absent secret at the same time
\* and the service fails only with the already-exists error, every
\* interleaving of their requests ends with both returning success: an
\* invocation that has not returned can always take its next step, exactly
\* one create succeeds, the other invocation updates, the secret ends with
\* the value of the invocation that updated and with the description and
\* tags of the invocation that created.
C25_ConcurrentUpsert ==
    /\ \A p \in Upserters :
           /\ ~Returned2(p) => ENABLED (ConcurrentCreate(p) \/ ConcurrentUpdate(p))
           /\ Returned2(p) => setCalls[p].ret = Some(Ok)
    /\ Cardinality({p \in Upserters : CreateWon(p)}) <= 1
    /\ (\A p \in Upserters : Returned2(p)) =>
           \E won \in Upserters : \E lost \in Upserters \ {won} :
               /\ CreateWon(won)
               /\ Len(setCalls[won].requests) = 1
               /\ TookUpdatePath(setCalls[lost])
               /\ StoredValueIs(store, setCalls[lost].name, setCalls[lost].value)
               /\ StoredMetadata(store, setCalls[won].name) =
                      SentMetadata(setCalls[won])

\* both invocations have returned; the one whose create was refused pushed
\* another value and declared other metadata than the one that created
C25_Witness ==
    /\ pc = "set_secret"
    /\ \A p \in Upserters : setCalls[p].ret = Some(Ok)
    /\ CreateWon(2)
    /\ TookUpdatePath(setCalls[1])
    /\ setCalls[1].value # setCalls[2].value
    /\ SentMetadata(setCalls[1]) # SentMetadata(setCalls[2])
    /\ StoredValueIs(store, setCalls[1].name, setCalls[1].value)
    /\ StoredMetadata(store, setCalls[1].name) = SentMetadata(setCalls[2])

(***************************************************************************)
(* A failed first half of an entry leaves its second half undone.          *)
(***************************************************************************)
UpsertOps == {"create_secret", "update_secret", "set_secret"}
FileAbsent == "cannot push secret, file does not exist"

\* the path of entry i of this run
PathOf(i) == ResolvePath(working_path, files[i].path)

\* no operation among ops was issued for entry i in this run
NoneIssued(ops, i) ==
    \A j \in CallIds : ~(calls[j].op \in ops /\ calls[j].idx = i)

\* C26: in a push, an entry whose file could not be read (it does not exist,
\* or the read failed) gets no create and no update request, and its secret
\* is as it was when the run started; every create request of a push follows
\* a successful read of the entry's file.  In a pull, an entry whose get
\* failed, for whatever reason, gets no write_file, and its file is as it was
\* when the run started; every write_file follows a successful get.
C26_NoSecondHalf ==
    /\ \A j \in CallIds :
           LET c == calls[j]
           IN  /\ (c.op = "read_file" /\ ~c.ok) =>
                      /\ NoneIssued(UpsertOps, c.idx)
                      /\ store[files[c.idx].secret] = prev.store[files[c.idx].secret]
               /\ (c.op = "get_secret" /\ ~c.ok) =>
                      /\ NoneIssued({"write_file"}, c.idx)
                      /\ disk[PathOf(c.idx)] = prev.disk[PathOf(c.idx)]
               /\ c.op \in {"create_secret", "write_file"} =>
                      /\ j > 1
                      /\ calls[j - 1].op =
                             (IF c.op = "write_file" THEN "get_secret" ELSE "read_file")
                      /\ calls[j - 1].idx = c.idx
                      /\ calls[j - 1].ok
    /\ command \in {"push", "quick-push"} =>
           \A i \in 1..Len(files) :
               disk[PathOf(i)] = None =>
                   /\ NoneIssued(UpsertOps, i)
                   /\ store[files[i].secret] = prev.store[files[i].secret]
                   /\ \A j \in CallIds :
                          (calls[j].op = "read_file" /\ calls[j].idx = i) =>
                              (~calls[j].ok /\ calls[j].code = FileAbsent)

\* a push whose first entry was stored and whose second entry has no file:
\* the run failed on the read, and the secret of the second entry, which
\* exists, is as it was
C26_Witness ==
    /\ command = "push"
    /\ RunFailed
    /\ Len(files) = 2
    /\ Effected = {1}
    /\ calls[Len(calls)].op = "read_file"
    /\ calls[Len(calls)].code = FileAbsent
    /\ disk[PathOf(2)] = None
    /\ store[files[2].secret] # None
    /\ store[files[2].secret] = prev.store[files[2].secret]

(***************************************************************************)
(* What each direction leaves alone.                                       *)
(***************************************************************************)
PullOps == {"get_secret", "write_file"}
PushOps == {"read_file", "create_secret", "update_secret", "set_secret"}

\* the operations issued so far in this run
OpsIssued == {calls[j].op : j \in CallIds}

\* C27: a pull (pull or quick-pull) issues only get_secret and write_file,
\* never set_secret, a create or update request, or read_file, and the store
\* is as it was when the run started; a push (push or quick-push) issues only
\* read_file and set_secret with its create and update requests, never
\* get_secret or write_file, and every file and directory is as it was when
\* the run started.  Both hold in every state of the run, whether it is
\* running, has succeeded or has failed.
C27_DirectionFrame ==
    /\ command \in PullCommands =>
           /\ OpsIssued \subseteq PullOps
           /\ store = prev.store
           /\ pc \in {"pull_get", "pull_write", "exit"}
    /\ command \in {"push", "quick-push"} =>
           /\ OpsIssued \subseteq PushOps
           /\ disk = prev.disk
           /\ dirs = prev.dirs
           /\ pc \in {"push_read", "push_create", "push_update", "exit"}

\* a push that stored its first entry and failed on the request for its
\* second: the store has changed, the files have not
C27_Witness ==
    /\ command = "push"
    /\ RunFailed
    /\ Effected = {1}
    /\ calls[Len(calls)].op = "set_secret"
    /\ store # prev.store
    /\ disk = prev.disk
    /\ \E path \in DiskPaths : disk[path] # None

====
